---- MODULE Spec2Model ----
(***************************************************************************)
(* AgentFlow: the PLAN -> ACT -> JUDGE orchestrator, its session store and *)
(* the callers that hand user messages to it.                              *)
(*                                                                         *)
(* One session is modelled (sessions share nothing but the map).  A user   *)
(* message is handled by one of the entry points (Orchestrator.            *)
(* process_message behind the Gradio UI, AgentCore._process_with_m3,       *)
(* sessions.resume_with_answer, sessions.set_pending_ask); the run loop of *)
(* Orchestrator.orchestrate is unrolled one iteration per step, and        *)
(* Executor.execute_plan one plan step per step.                           *)
(***************************************************************************)
EXTENDS Integers, Sequences, FiniteSets, TLC

\* ------------------------------------------------------------------------
\* Budgets (config.py defaults)
\* ------------------------------------------------------------------------
max_tool_calls_per_act == 3
max_total_tool_calls == 6
max_plan_iters == 2

\* ------------------------------------------------------------------------
\* Bounds of the model
\* ------------------------------------------------------------------------
\* Longest plan the planner hands over (the schema does not bound len(steps)).
MaxSteps == 4
\* Number of PendingAsk records (uuid4 ask ids) created in one run.
MaxAsks == 1

\* ------------------------------------------------------------------------
\* Values
\* ------------------------------------------------------------------------
\* Python None for object-valued fields.
None == [none |-> TRUE]
\* A key that is not in the artifacts dict.
Absent == [absent |-> TRUE]

\* User messages; the text decides the keyword tests below.
UserQueries == {"Rotterdam", "reset", "bye"}
\* Messages to AgentCore, which runs no keyword test on them.
ChatQueries == {"Rotterdam"}
\* Answers handed to sessions.resume_with_answer, which only stores them.
Answers == {"Rotterdam"}
\* Ask ids a caller echoes back: none (0), an id that was issued, or an id
\* the session never issued.
EchoedAskIds == 0..(MaxAsks + 1)

\* Questions put to the user.
CityQuestion == "which city?"
Questions == {CityQuestion, "which date?", "please clarify"}

\* expects values handed to set_pending_ask, and the question asked for each.
ExpectsKinds == {"city", "date", "answer"}
QuestionFor(expects) ==
    IF expects = "city" THEN CityQuestion
    ELSE IF expects = "date" THEN "which date?"
    ELSE "please clarify"

ArtifactKeys == {"ask_user_pending", "user_city", "user_date", "user_answer"}

\* OrchestratorState enum values.
PLAN == "plan"
ACT == "act"
JUDGE == "judge"
ASK_USER == "ask_user"
DONE == "done"
FAILED == "failed"

\* error_message texts (one per budget dimension).
ErrNone == "None"
ErrTime == "max_execution_time"
ErrToolCalls == "max_total_tool_calls"
ErrPlanIters == "max_plan_iters"

\* ------------------------------------------------------------------------
\* Data classes
\* ------------------------------------------------------------------------
\* ExecutionState(): artifacts, completed_steps and errors.  The outputs of
\* completed steps are counted in completed_steps; artifacts keeps the keys
\* the orchestrator and the session layer read and write.
ExecutionState ==
    [artifacts |-> [k \in ArtifactKeys |-> Absent],
     completed_steps |-> 0,
     errors |-> 0]

set_artifact(es, key, value) == [es EXCEPT !.artifacts[key] = value]

get_artifact(es, key) == es.artifacts[key]

\* bool(execution_state.get_artifact("ask_user_pending")) on an optional state.
HasMarker(es) == es # None /\ get_artifact(es, "ask_user_pending") # Absent

ActiveTask ==
    [plan |-> None,
     execution_state |-> None,
     iteration_count |-> 0,
     plan_iterations |-> 0,
     total_tool_calls |-> 0]

\* is_active(): a plan is present and the task saw activity in the last hour.
is_active(task, expired) == task.plan # None /\ ~expired

PendingAsk(ask_id, question, expects) ==
    [ask_id |-> ask_id, question |-> question, expects |-> expects]

SessionState == [active_task |-> None, pending_ask |-> None]

has_pending_ask(s) == s.pending_ask # None

SessionState_set_pending_ask(s, ask_id, question, expects) ==
    [s EXCEPT !.pending_ask = PendingAsk(ask_id, question, expects)]

clear_pending_ask(s) == [s EXCEPT !.pending_ask = None]

start_new_task(s) == clear_pending_ask([s EXCEPT !.active_task = ActiveTask])

end_task(s) == clear_pending_ask([s EXCEPT !.active_task = None])

\* A plan the planner returned.  Its steps are not held in the state: the
\* executor reads them one at a time, and execute_step draws each step when
\* the for loop reaches it.
PlannerOutput == [goal |-> "goal"]

OrchestratorResult ==
    [final_plan |-> None,
     execution_state |-> None,
     judge_history |-> << >>,
     iteration_count |-> 0,
     plan_iterations |-> 0,
     total_tool_calls |-> 0,
     status |-> "pending",
     error_message |-> ErrNone,
     final_answer |-> None,
     pending_questions |-> << >>]

\* ------------------------------------------------------------------------
\* Keyword tests on the sample messages
\* ------------------------------------------------------------------------
\* any(keyword in query_lower for keyword in new_task_keywords)
is_new_task_request(user_query) == user_query \in {"reset"}

\* any(keyword in query_lower for keyword in termination_keywords)
is_task_termination(user_query) == user_query \in {"bye"}

\* "city" in expects.lower() / "date" in expects.lower() / else
ExpectsOutputKey(expects) ==
    IF expects = "city" THEN "user_city"
    ELSE IF expects = "date" THEN "user_date"
    ELSE "user_answer"

\* The Gradio UI's guess of the expected answer kind from the question text.
InferExpects(question) ==
    IF question = CityQuestion THEN "city"
    ELSE IF question = "which date?" THEN "date"
    ELSE "user_input"

\* TelemetryLogger.log_event appends a record; whether `event` is in the log.
Logged(log, event) == \E i \in 1..Len(log) : log[i] = event

\* ------------------------------------------------------------------------
\* State
\* ------------------------------------------------------------------------
VARIABLES
    session,        \* the SessionState of the session
    next_ask_id,    \* the next fresh ask id (uuid4)
    pc,             \* "idle", "loop", "exec", "after_loop", "caller"
    entry,          \* the entry point handling the current message
    msg,            \* the message being handled, and the clock when it came
    current_state,  \* orchestrate: current_state
    plan_iter,      \* orchestrate: plan_iter
    result,         \* orchestrate: result
    exec,           \* execute_plan: its locals
    ret,            \* what the entry point handed back to its caller
    telemetry,      \* telemetry events logged while handling the message
    resumed,        \* ask ids whose answer a resume has written
    time_up,        \* elapsed_time > max_execution_time in the running slice
    call            \* one call of a function taken by itself: arguments, result

orchestration_vars ==
    <<session, next_ask_id, pc, entry, msg, current_state, plan_iter,
      result, exec, ret, telemetry, resumed, time_up>>

vars == <<orchestration_vars, call>>

\* No function is being called by itself.
NoCall == [fn |-> "none"]

NoExec == [i |-> 0, tool_call_count |-> 0, state |-> None, halted |-> FALSE]

NoMsg == [text |-> "", ask_id |-> 0, redelivery |-> FALSE, expired |-> FALSE]

InitOrchestration ==
    /\ session = SessionState
    /\ next_ask_id = 1
    /\ pc = "idle"
    /\ entry = "none"
    /\ msg = NoMsg
    /\ current_state = PLAN
    /\ plan_iter = 0
    /\ result = OrchestratorResult
    /\ exec = NoExec
    /\ ret = "none"
    /\ telemetry = << >>
    /\ resumed = {}
    /\ time_up = FALSE

Init == InitOrchestration /\ call = NoCall

\* ------------------------------------------------------------------------
\* Entry points
\* ------------------------------------------------------------------------
\* Local variables of a call that is not running orchestrate.
NoSlice ==
    /\ current_state' = PLAN
    /\ plan_iter' = 0
    /\ result' = OrchestratorResult
    /\ exec' = NoExec
    /\ time_up' = FALSE

\* orchestrate() that drops the ActiveTask it is given and starts from an
\* empty result.
orchestrate_begin_fresh(active_task) ==
    /\ result' = OrchestratorResult
    /\ current_state' = PLAN
    /\ plan_iter' = 0
    /\ exec' = NoExec
    /\ pc' = "loop"
    /\ time_up' = FALSE

\* orchestrate(), up to the first evaluation of the while condition: the
\* result starts from the ActiveTask passed in, the machine starts in PLAN.
orchestrate_begin(active_task) ==
    /\ result' = IF active_task # None
                 THEN [OrchestratorResult EXCEPT
                          !.final_plan = active_task.plan,
                          !.execution_state = active_task.execution_state,
                          !.iteration_count = active_task.iteration_count,
                          !.plan_iterations = active_task.plan_iterations,
                          !.total_tool_calls = active_task.total_tool_calls]
                 ELSE OrchestratorResult
    /\ current_state' = PLAN
    /\ plan_iter' = 0
    /\ exec' = NoExec
    /\ pc' = "loop"
    /\ time_up' = FALSE

\* Orchestrator._resume_with_answer: what it does to the session.  Its return
\* value is the coroutine of _force_replan (or of _start_new_task), which is
\* handed back without being awaited.
Orchestrator_resume_with_answer(s, user_answer) ==
    IF s.pending_ask = None \/ s.active_task = None
    THEN clear_pending_ask(s)
    ELSE LET pending_ask == s.pending_ask
             s1 == clear_pending_ask(s)
             es == IF s1.active_task.execution_state = None
                   THEN ExecutionState
                   ELSE s1.active_task.execution_state
         IN  [s1 EXCEPT !.active_task.execution_state =
                 set_artifact(es, ExpectsOutputKey(pending_ask.expects),
                              [text |-> user_answer])]

\* sessions.set_pending_ask(session_id, question, expects)
set_pending_ask(question, expects) ==
    /\ pc = "idle"
    /\ next_ask_id <= MaxAsks
    /\ session' = SessionState_set_pending_ask(session, next_ask_id, question, expects)
    /\ next_ask_id' = next_ask_id + 1
    /\ UNCHANGED <<pc, entry, msg, current_state, plan_iter, result, exec,
                   ret, telemetry, resumed, time_up>>
    /\ UNCHANGED call

\* ChatUI.process_user_message -> Orchestrator.process_message(user_query,
\* session_id).  expired: whether an hour has passed since the task's
\* last activity.
process_message(user_query, expired) ==
    /\ pc = "idle"
    /\ entry' = "process_message"
    /\ msg' = [text |-> user_query, ask_id |-> 0, redelivery |-> FALSE,
               expired |-> expired]
    /\ UNCHANGED next_ask_id
    /\ IF has_pending_ask(session)
       THEN \* return await self._resume_with_answer(user_query, session)
            /\ session' = Orchestrator_resume_with_answer(session, user_query)
            /\ resumed' = IF session.active_task # None
                          THEN resumed \cup {session.pending_ask.ask_id}
                          ELSE resumed
            /\ ret' = "coroutine"
            /\ telemetry' = << >>
            /\ pc' = "caller"
            /\ NoSlice
       ELSE LET ignored == /\ session.active_task # None
                           /\ is_active(session.active_task, expired)
                           /\ is_new_task_request(user_query)
                s1 == IF ignored THEN end_task(session) ELSE session
                continue == /\ s1.active_task # None
                            /\ is_active(s1.active_task, expired)
            IN  /\ telemetry' = IF ignored THEN <<"ASK_USER_IGNORED">> ELSE << >>
                /\ resumed' = resumed
                /\ IF continue /\ is_task_termination(user_query)
                   THEN \* _continue_task: the user ends the task
                        /\ session' = end_task(s1)
                        /\ result' = [OrchestratorResult EXCEPT
                                         !.status = "terminated",
                                         !.final_answer = [text |-> "task ended"]]
                        /\ current_state' = PLAN
                        /\ plan_iter' = 0
                        /\ exec' = NoExec
                        /\ time_up' = FALSE
                        /\ ret' = "result"
                        /\ pc' = "caller"
                   ELSE \* _continue_task or _start_new_task, then orchestrate
                        /\ session' = IF continue THEN s1 ELSE start_new_task(s1)
                        /\ orchestrate_begin(session'.active_task)
                        /\ ret' = "none"
    /\ UNCHANGED call

\* AgentCore._process_with_m3(user_query, context) with context["session_id"]:
\* orchestrate(user_query, context) without an ActiveTask.
process_with_m3(user_query) ==
    /\ pc = "idle"
    /\ entry' = "process_with_m3"
    /\ msg' = [text |-> user_query, ask_id |-> 0, redelivery |-> FALSE,
               expired |-> FALSE]
    /\ orchestrate_begin(None)
    /\ ret' = "none"
    /\ telemetry' = << >>
    /\ UNCHANGED <<session, next_ask_id, resumed>>
    /\ UNCHANGED call

\* sessions.resume_with_answer(session_id, answer, ask_id, output_key).
\* ask_id = 0 and output_key = "" stand for arguments that were not given.
\* ExecutionState has no remove_artifact method: the call after the write
\* raises AttributeError, which the except clause turns into return None.
sessions_resume_with_answer(answer, ask_id, output_key) ==
    /\ pc = "idle"
    /\ entry' = "resume_with_answer"
    /\ msg' = [text |-> answer, ask_id |-> ask_id,
               redelivery |-> (ask_id \in resumed), expired |-> FALSE]
    /\ ret' = "None"
    /\ telemetry' = << >>
    /\ pc' = "caller"
    /\ NoSlice
    /\ UNCHANGED next_ask_id
    /\ IF ~has_pending_ask(session)
       THEN UNCHANGED <<session, resumed>>
       ELSE IF ask_id # 0 /\ session.pending_ask.ask_id # ask_id
       THEN UNCHANGED <<session, resumed>>
       ELSE LET pending_ask == session.pending_ask
                s1 == clear_pending_ask(session)
                final_output_key == IF output_key # "" THEN output_key
                                    ELSE ExpectsOutputKey(pending_ask.expects)
            IN  IF s1.active_task # None /\ s1.active_task.execution_state # None
                THEN /\ session' = [s1 EXCEPT !.active_task.execution_state =
                                       set_artifact(@, final_output_key, [text |-> answer])]
                     /\ resumed' = resumed \cup {pending_ask.ask_id}
                ELSE /\ session' = s1
                     /\ resumed' = resumed
    /\ UNCHANGED call

\* ui_chainlit.on_message(message), current_ask_id being the ask id the front
\* end holds.  SessionState has no add_message method: the handler raises
\* AttributeError at session.add_message, before it looks at the PendingAsk
\* and before handle_resume_with_answer can validate the ask id.
on_message(content, current_ask_id) ==
    /\ pc = "idle"
    /\ entry' = "on_message"
    /\ msg' = [text |-> content, ask_id |-> current_ask_id,
               redelivery |-> (current_ask_id \in resumed), expired |-> FALSE]
    /\ ret' = "AttributeError"
    /\ telemetry' = << >>
    /\ pc' = "caller"
    /\ NoSlice
    /\ UNCHANGED <<session, next_ask_id, resumed>>
    /\ UNCHANGED call

\* ------------------------------------------------------------------------
\* Orchestrator.orchestrate: the run loop, one iteration per step
\* ------------------------------------------------------------------------
\* while current_state not in [DONE, FAILED]
InLoop == pc = "loop" /\ current_state \notin {DONE, FAILED}

\* if result.total_tool_calls >= self.max_total_tool_calls
TotalToolCallsExhausted(total_tool_calls) == total_tool_calls >= max_total_tool_calls

\* if plan_iter >= self.max_plan_iters
PlanItersExhausted(iter) == iter >= max_plan_iters

\* The budget checks at the top of an iteration all passed.
BudgetsLeft ==
    /\ InLoop
    /\ ~time_up
    /\ ~TotalToolCallsExhausted(result.total_tool_calls)
    /\ ~PlanItersExhausted(plan_iter)

\* The while condition is false: the loop ends.
loop_exit ==
    /\ pc = "loop"
    /\ current_state \in {DONE, FAILED}
    /\ pc' = "after_loop"
    /\ UNCHANGED <<session, next_ask_id, entry, msg, current_state, plan_iter,
                   result, exec, ret, telemetry, resumed, time_up>>
    /\ UNCHANGED call

\* The wall clock passes max_execution_time while a phase runs (or before the
\* first one): the loop sees it when it next evaluates its while condition.
clock_expires ==
    /\ pc = "loop"
    /\ ~time_up
    /\ time_up' = TRUE
    /\ UNCHANGED <<session, next_ask_id, pc, entry, msg, current_state, plan_iter,
                   result, exec, ret, telemetry, resumed>>
    /\ UNCHANGED call

\* if elapsed_time > self.max_execution_time
loop_timeout ==
    /\ InLoop
    /\ time_up
    /\ current_state' = FAILED
    /\ result' = [result EXCEPT !.error_message = ErrTime]
    /\ pc' = "after_loop"
    /\ UNCHANGED <<session, next_ask_id, entry, msg, plan_iter, exec, ret,
                   telemetry, resumed, time_up>>
    /\ UNCHANGED call

loop_budget_exceeded ==
    /\ InLoop
    /\ ~time_up
    /\ TotalToolCallsExhausted(result.total_tool_calls)
    /\ telemetry' = Append(telemetry, "BUDGET_EXCEEDED")
    /\ current_state' = FAILED
    /\ result' = [result EXCEPT !.error_message = ErrToolCalls]
    /\ pc' = "after_loop"
    /\ UNCHANGED <<session, next_ask_id, entry, msg, plan_iter, exec, ret, resumed,
                   time_up>>
    /\ UNCHANGED call

loop_judge_loop ==
    /\ InLoop
    /\ ~time_up
    /\ ~TotalToolCallsExhausted(result.total_tool_calls)
    /\ PlanItersExhausted(plan_iter)
    /\ telemetry' = Append(telemetry, "JUDGE_LOOP")
    /\ current_state' = FAILED
    /\ result' = [result EXCEPT !.error_message = ErrPlanIters]
    /\ pc' = "after_loop"
    /\ UNCHANGED <<session, next_ask_id, entry, msg, plan_iter, exec, ret, resumed,
                   time_up>>
    /\ UNCHANGED call

\* PLAN branch and _plan_phase.  planned: create_plan returned a plan;
\* otherwise it raised and _plan_phase returns FAILED.
plan_phase(planned) ==
    /\ BudgetsLeft
    /\ current_state = PLAN
    /\ plan_iter' = plan_iter + 1
    /\ result' = IF planned
                 THEN [result EXCEPT !.plan_iterations = plan_iter + 1,
                                     !.final_plan = PlannerOutput]
                 ELSE [result EXCEPT !.plan_iterations = plan_iter + 1]
    /\ current_state' = IF planned THEN ACT ELSE FAILED
    /\ UNCHANGED <<session, next_ask_id, pc, entry, msg, exec, ret, telemetry, resumed,
                   time_up>>
    /\ UNCHANGED call

\* ------------------------------------------------------------------------
\* Executor.execute_plan, one step of the sorted plan per step
\* ------------------------------------------------------------------------
StepTypes == {"tool_call", "web_search", "summarize", "write_file", "ask_user"}

\* What running a step does: "ok" it returns, "raise" it raises,
\* "no_location" it is a weather_get call without a location.
\* _execute_step has no branch for web_search and raises ValueError for it.
PlanSteps ==
    {st \in [type : StepTypes, outcome : {"ok", "raise", "no_location"}, retry : {0, 1}] :
        /\ st.outcome = "no_location" => st.type = "tool_call"
        /\ st.type = "web_search" => st.outcome = "raise"}

\* The marker _execute_tool_call synthesizes for weather_get without location.
WeatherMarker == [questions |-> <<CityQuestion>>, expects |-> "city"]

\* The return value of _execute_step.
step_tool_calls(step) == IF step.type = "tool_call" THEN 1 ELSE 0

\* A cap that lets one more call through: the comparison with > for >=.
ActBudgetExceeded(tool_call_count) == tool_call_count > max_tool_calls_per_act

\* if max_tool_calls is not None and tool_call_count >= max_tool_calls: break
ActBudgetReached(tool_call_count) == tool_call_count >= max_tool_calls_per_act

\* ACT branch: _act_phase calls execute_plan, which starts from a new state.
act_begin ==
    /\ BudgetsLeft
    /\ current_state = ACT
    /\ exec' = [i |-> 0, tool_call_count |-> 0, state |-> ExecutionState, halted |-> FALSE]
    /\ pc' = "exec"
    /\ UNCHANGED <<session, next_ask_id, entry, msg, current_state, plan_iter,
                   result, ret, telemetry, resumed, time_up>>
    /\ UNCHANGED call

\* One iteration of `for step in sorted_steps`.
execute_step(step) ==
    /\ pc = "exec"
    /\ ~exec.halted
    /\ exec.i < MaxSteps
    /\ ~ActBudgetReached(exec.tool_call_count)
    /\ exec' =
         IF step.outcome = "raise"
         THEN \* except: record the error; break when step.retry == 0
              [exec EXCEPT !.state.errors = @ + 1,
                           !.i = @ + 1,
                           !.halted = (step.retry = 0)]
         ELSE LET st == IF step.outcome = "no_location"
                        THEN set_artifact(exec.state, "ask_user_pending", WeatherMarker)
                        ELSE exec.state
              IN  IF HasMarker(st)
                  THEN \* return state, the step is not marked complete
                       [exec EXCEPT !.state = st,
                                    !.tool_call_count = @ + step_tool_calls(step),
                                    !.halted = TRUE]
                  ELSE [exec EXCEPT !.state = [st EXCEPT !.completed_steps = @ + 1],
                                    !.tool_call_count = @ + step_tool_calls(step),
                                    !.i = @ + 1]
    /\ UNCHANGED <<session, next_ask_id, pc, entry, msg, current_state, plan_iter,
                   result, ret, telemetry, resumed, time_up>>
    /\ UNCHANGED call

\* The for loop of execute_plan is over: break, return, or no step left (the
\* plan had exec.i steps; a PlannerOutput has at least one).
ExecLoopDone ==
    exec.halted \/ exec.i >= 1 \/ ActBudgetReached(exec.tool_call_count)

\* execute_plan returns; the rest of _act_phase.
act_return ==
    /\ pc = "exec"
    /\ ExecLoopDone
    /\ LET execution_state == exec.state
           ask_user_pending == get_artifact(execution_state, "ask_user_pending")
       IN  /\ result' = [result EXCEPT
                            !.execution_state = execution_state,
                            !.total_tool_calls = @ + execution_state.completed_steps,
                            !.pending_questions =
                                IF ask_user_pending # Absent
                                THEN ask_user_pending.questions ELSE @]
           /\ current_state' = IF ask_user_pending # Absent THEN ASK_USER ELSE JUDGE
    /\ pc' = "loop"
    /\ exec' = NoExec
    /\ UNCHANGED <<session, next_ask_id, entry, msg, plan_iter, ret, telemetry, resumed,
                   time_up>>
    /\ UNCHANGED call

\* ------------------------------------------------------------------------
\* JUDGE, ASK_USER and the end of the slice
\* ------------------------------------------------------------------------
\* JudgeOutput as _judge_phase reads it (questions: None and [] are both falsy).
JudgeOutputs ==
    [satisfied : BOOLEAN,
     questions : {<< >>, <<"please clarify">>, <<"which date?", "please clarify">>}]

\* _judge_phase with the questions branch lost: an unsatisfied verdict always
\* replans.
judge_next_state_without_questions(judge_result) ==
    IF judge_result.satisfied THEN DONE ELSE PLAN

\* The branch _judge_phase takes on a verdict.
judge_next_state(judge_result) ==
    IF judge_result.satisfied THEN DONE
    ELSE IF judge_result.questions # << >> THEN ASK_USER
    ELSE PLAN

\* JUDGE branch and _judge_phase on a verdict.
judge_phase(judge_result) ==
    /\ BudgetsLeft
    /\ current_state = JUDGE
    /\ current_state' = judge_next_state(judge_result)
    /\ result' = [result EXCEPT
                     !.judge_history = Append(@, judge_result),
                     !.pending_questions =
                         IF judge_next_state(judge_result) = ASK_USER
                         THEN judge_result.questions ELSE @]
    /\ UNCHANGED <<session, next_ask_id, pc, entry, msg, plan_iter, exec, ret,
                   telemetry, resumed, time_up>>
    /\ UNCHANGED call

\* _judge_phase: evaluate_execution raised.
judge_phase_failed ==
    /\ BudgetsLeft
    /\ current_state = JUDGE
    /\ current_state' = FAILED
    /\ UNCHANGED <<session, next_ask_id, pc, entry, msg, plan_iter, result, exec,
                   ret, telemetry, resumed, time_up>>
    /\ UNCHANGED call

\* ASK_USER branch: mark the result and break.
ask_user_break ==
    /\ BudgetsLeft
    /\ current_state = ASK_USER
    /\ result' = [result EXCEPT !.status = "waiting_for_user"]
    /\ pc' = "after_loop"
    /\ UNCHANGED <<session, next_ask_id, entry, msg, current_state, plan_iter,
                   exec, ret, telemetry, resumed, time_up>>
    /\ UNCHANGED call

\* After the loop: final status, iteration count and final answer; return.
orchestrate_return ==
    /\ pc = "after_loop"
    /\ result' = [result EXCEPT
                     !.status = current_state,
                     !.iteration_count = plan_iter,
                     !.final_answer =
                         IF /\ current_state = DONE
                            /\ result.final_plan # None
                            /\ result.execution_state # None
                         THEN [text |-> "rendered"] ELSE @]
    /\ ret' = "result"
    /\ pc' = "caller"
    /\ time_up' = FALSE
    /\ UNCHANGED <<session, next_ask_id, entry, msg, current_state, plan_iter,
                   exec, telemetry, resumed>>
    /\ UNCHANGED call

\* ------------------------------------------------------------------------
\* Back in the callers
\* ------------------------------------------------------------------------
\* The call is over: its locals are gone.
CallOver ==
    /\ pc' = "idle"
    /\ entry' = "none"
    /\ msg' = NoMsg
    /\ ret' = "none"
    /\ telemetry' = << >>
    /\ NoSlice

\* ChatUI.process_user_message after process_message returned.  Reading
\* .status of a coroutine raises, and the except clause answers with an
\* error text; a waiting_for_user result records the PendingAsk.
process_user_message_return ==
    /\ pc = "caller"
    /\ entry = "process_message"
    /\ IF /\ ret = "result"
          /\ result.status = "waiting_for_user"
          /\ result.pending_questions # << >>
       THEN LET question == result.pending_questions[1]
            IN  /\ session' = SessionState_set_pending_ask(
                                  session, next_ask_id, question, InferExpects(question))
                /\ next_ask_id' = next_ask_id + 1
       ELSE UNCHANGED <<session, next_ask_id>>
    /\ CallOver
    /\ UNCHANGED resumed
    /\ UNCHANGED call

\* AgentCore._process_with_m3 after orchestrate returned: an ask_user result
\* is saved as the session's ActiveTask when the session has none.
process_with_m3_return ==
    /\ pc = "caller"
    /\ entry = "process_with_m3"
    /\ session' = IF result.status = "ask_user" /\ session.active_task = None
                  THEN [session EXCEPT !.active_task =
                           [plan |-> result.final_plan,
                            execution_state |-> result.execution_state,
                            iteration_count |-> result.iteration_count,
                            plan_iterations |-> result.plan_iterations,
                            total_tool_calls |-> result.total_tool_calls]]
                  ELSE session
    /\ CallOver
    /\ UNCHANGED <<next_ask_id, resumed>>
    /\ UNCHANGED call

\* The caller of sessions.resume_with_answer has its return value.
resume_with_answer_return ==
    /\ pc = "caller"
    /\ entry = "resume_with_answer"
    /\ CallOver
    /\ UNCHANGED <<session, next_ask_id, resumed>>
    /\ UNCHANGED call

\* Chainlit reports the exception of on_message.
on_message_return ==
    /\ pc = "caller"
    /\ entry = "on_message"
    /\ CallOver
    /\ UNCHANGED <<session, next_ask_id, resumed>>
    /\ UNCHANGED call

\* ------------------------------------------------------------------------
\* Specification
\* ------------------------------------------------------------------------
Next ==
    \/ \E expects \in ExpectsKinds : set_pending_ask(QuestionFor(expects), expects)
    \/ \E user_query \in UserQueries, expired \in BOOLEAN :
           process_message(user_query, expired)
    \/ \E user_query \in ChatQueries : process_with_m3(user_query)
    \/ \E answer \in Answers, ask_id \in EchoedAskIds, output_key \in {"", "user_date"} :
           sessions_resume_with_answer(answer, ask_id, output_key)
    \/ \E content \in Answers, current_ask_id \in EchoedAskIds :
           on_message(content, current_ask_id)
    \/ loop_exit
    \/ clock_expires
    \/ loop_timeout
    \/ loop_budget_exceeded
    \/ loop_judge_loop
    \/ \E planned \in BOOLEAN : plan_phase(planned)
    \/ act_begin
    \/ \E step \in PlanSteps : execute_step(step)
    \/ act_return
    \/ \E judge_result \in JudgeOutputs : judge_phase(judge_result)
    \/ judge_phase_failed
    \/ ask_user_break
    \/ orchestrate_return
    \/ process_user_message_return
    \/ process_with_m3_return
    \/ resume_with_answer_return
    \/ on_message_return

Spec == Init /\ [][Next]_vars

\* ------------------------------------------------------------------------
\* Properties
\* ------------------------------------------------------------------------
\* C1: the cumulative tool-call counter never exceeds the cap, at every point
\* of every slice and across the slices of one ActiveTask:
\* total_tool_calls <= max_total_tool_calls, on the result of the running
\* slice and on the ActiveTask the session retains.
C1_TotalToolCallsWithinCap ==
    /\ result.total_tool_calls <= max_total_tool_calls
    /\ session.active_task # None =>
           session.active_task.total_tool_calls <= max_total_tool_calls

\* C2: plan_iterations <= max_plan_iters, plan_iterations being the counter
\* of the ActiveTask that goes up by one on each entry to PLAN: the entries
\* the ActiveTask has recorded from earlier slices plus the entries of the
\* slice now running on it.
C2_PlanIterationsWithinCap ==
    /\ result.plan_iterations <= max_plan_iters
    /\ (/\ entry = "process_message"
        /\ pc \in {"loop", "exec", "after_loop"}
        /\ session.active_task # None) =>
           session.active_task.plan_iterations + plan_iter <= max_plan_iters

\* C3: resume is idempotent on ask_id: a delivery whose ask id has already
\* been resumed is logged as SESSION_MISMATCH, writes nothing to the
\* ExecutionState and starts no second resume.
C3_RedeliveryIsSessionMismatch ==
    [][(pc = "idle" /\ pc' = "caller" /\ msg'.redelivery) =>
           /\ Logged(telemetry', "SESSION_MISMATCH")
           /\ session' = session
           /\ resumed' = resumed]_vars

\* C4: every entry to PLAN increments plan_iterations; JUDGE_LOOP with FAILED
\* happens only when the incremented value exceeds max_plan_iters; a plan
\* produced within the budget (plan number max_plan_iters included) is
\* followed by the ACT phase that executes it.
C4_PlanThenAct ==
    [][/\ (pc = "loop" /\ current_state = PLAN /\ plan_iter' = plan_iter + 1) =>
              result'.plan_iterations = result.plan_iterations + 1
       /\ Logged(telemetry', "JUDGE_LOOP") => plan_iter' > max_plan_iters
       /\ (/\ pc = "loop"
           /\ current_state = ACT
           /\ result.plan_iterations <= max_plan_iters
           /\ result'.error_message # ErrTime) => pc' = "exec"]_vars

\* C5: after an ACT phase (the loop is back at its top with the state ACT
\* returned): with the ask_user_pending marker in the artifacts the ASK_USER
\* state is taken; otherwise with total_tool_calls >= max_total_tool_calls
\* the machine fails with BUDGET_EXCEEDED; otherwise JUDGE runs.  The one
\* exception is the wall clock running out.
C5_AfterAct ==
    [][(/\ pc = "loop"
        /\ result.execution_state # None
        /\ \/ current_state = JUDGE
           \/ current_state = ASK_USER /\ HasMarker(result.execution_state)
        /\ result'.error_message # ErrTime) =>
           IF HasMarker(result.execution_state)
           THEN current_state' = ASK_USER /\ pc' = "after_loop"
           ELSE IF result.total_tool_calls >= max_total_tool_calls
           THEN current_state' = FAILED /\ Logged(telemetry', "BUDGET_EXCEEDED")
           ELSE /\ current_state' \in {DONE, ASK_USER, PLAN, FAILED}
                /\ result'.error_message = ErrNone]_vars

\* C6: after a JUDGE phase that produced a verdict: satisfied leads to DONE;
\* otherwise a non-empty questions list becomes the result's pending
\* questions and leads to ASK_USER; otherwise the machine replans (PLAN).
C6_AfterJudge ==
    [][(/\ pc = "loop"
        /\ current_state = JUDGE
        /\ Len(result'.judge_history) = Len(result.judge_history) + 1) =>
           LET verdict == result'.judge_history[Len(result'.judge_history)]
           IN  IF verdict.satisfied
               THEN current_state' = DONE
               ELSE IF verdict.questions # << >>
               THEN /\ current_state' = ASK_USER
                    /\ result'.pending_questions = verdict.questions
               ELSE current_state' = PLAN]_vars

\* A verdict that asks the user has just been taken: the slice is at the top
\* of the loop in ASK_USER with the verdict's questions pending.
C6_JudgeAsked ==
    /\ pc = "loop"
    /\ current_state = ASK_USER
    /\ result.judge_history # << >>
    /\ ~result.judge_history[Len(result.judge_history)].satisfied
    /\ result.pending_questions = result.judge_history[Len(result.judge_history)].questions

\* C7: when a slice has left through ASK_USER, the session holds a PendingAsk
\* by the time the call is over, so the next message counts as the answer.
C7_AskRecordsPendingAsk ==
    [][(/\ pc = "caller"
        /\ ret = "result"
        /\ current_state = ASK_USER
        /\ pc' = "idle") => has_pending_ask(session')]_vars

\* C8: a message that arrives while a PendingAsk is outstanding re-enters the
\* state machine at PLAN, and the call hands back the result of that slice.
C8_AnswerReplans ==
    [][/\ (/\ pc = "idle"
           /\ has_pending_ask(session)
           /\ entry' = "process_message") =>
              (pc' = "loop" /\ current_state' = PLAN)
       /\ (pc = "caller" /\ entry = "process_message" /\ pc' = "idle") =>
              ret = "result"]_vars

\* C9: a slice that left the loop through ASK_USER returns a result with
\* status waiting_for_user and without a final answer.
C9_AskUserStatus ==
    (pc = "caller" /\ ret = "result" /\ current_state = ASK_USER) =>
        /\ result.status = "waiting_for_user"
        /\ result.final_answer = None

\* C10: a message with a new-task keyword that arrives while a PendingAsk is
\* outstanding is not taken as the answer: the old task is ended, the
\* PendingAsk is dropped with exactly one ASK_USER_IGNORED record, and a
\* fresh orchestration starts for the message.
C10_NewTaskOverridesPendingAsk ==
    [][(/\ pc = "idle"
        /\ has_pending_ask(session)
        /\ entry' = "process_message"
        /\ is_new_task_request(msg'.text)) =>
           /\ telemetry' = <<"ASK_USER_IGNORED">>
           /\ session' = start_new_task(session)
           /\ resumed' = resumed
           /\ pc' = "loop"
           /\ current_state' = PLAN
           /\ result' = OrchestratorResult]_vars

\* C11 as stated: with a live ActiveTask, no PendingAsk and no new-task
\* keyword in the message, the message is a continuation: the slice starts
\* from the ActiveTask's plan, ExecutionState and counters, and the session
\* keeps that ActiveTask.
C11_ContinuationCarriesTask ==
    [][(/\ pc = "idle"
        /\ entry' = "process_message"
        /\ ~has_pending_ask(session)
        /\ session.active_task # None
        /\ is_active(session.active_task, msg'.expired)
        /\ ~is_new_task_request(msg'.text)) =>
           /\ session' = session
           /\ pc' = "loop"
           /\ current_state' = PLAN
           /\ result'.final_plan = session.active_task.plan
           /\ result'.execution_state = session.active_task.execution_state
           /\ result'.plan_iterations = session.active_task.plan_iterations
           /\ result'.total_tool_calls = session.active_task.total_tool_calls]_vars

\* C11, amended: the same, for a message that also contains no termination
\* keyword (a termination keyword ends the task instead).
C11_ContinuationUnlessTerminated ==
    [][(/\ pc = "idle"
        /\ entry' = "process_message"
        /\ ~has_pending_ask(session)
        /\ session.active_task # None
        /\ is_active(session.active_task, msg'.expired)
        /\ ~is_new_task_request(msg'.text)
        /\ ~is_task_termination(msg'.text)) =>
           /\ session' = session
           /\ pc' = "loop"
           /\ current_state' = PLAN
           /\ result'.final_plan = session.active_task.plan
           /\ result'.execution_state = session.active_task.execution_state
           /\ result'.plan_iterations = session.active_task.plan_iterations
           /\ result'.total_tool_calls = session.active_task.total_tool_calls]_vars

\* A continuation slice has just started on a task that had already counted
\* completed steps: nothing is planned yet and the result holds the task's
\* plan and counters.
C11_ContinuationStarted ==
    /\ pc = "loop"
    /\ entry = "process_message"
    /\ ~msg.expired
    /\ ~is_new_task_request(msg.text)
    /\ plan_iter = 0
    /\ session.active_task # None
    /\ session.active_task.plan # None
    /\ result.final_plan = session.active_task.plan
    /\ result.total_tool_calls = session.active_task.total_tool_calls
    /\ result.total_tool_calls > 0

\* C12: a resume (a message that takes the PendingAsk of a session with an
\* ActiveTask) stores the answer in the task's ExecutionState under the
\* output_key of the ask_user_pending marker when the marker has one,
\* otherwise under user_city / user_date / user_answer as PendingAsk.expects
\* says, and under no other key.
C12_AnswerKey ==
    [][(/\ pc = "idle"
        /\ pc' = "caller"
        /\ has_pending_ask(session)
        /\ session.active_task # None
        /\ ~has_pending_ask(session')) =>
           LET old == IF session.active_task.execution_state = None
                      THEN ExecutionState
                      ELSE session.active_task.execution_state
               marker == get_artifact(old, "ask_user_pending")
               key == IF marker # Absent /\ "output_key" \in DOMAIN marker
                      THEN marker.output_key
                      ELSE ExpectsOutputKey(session.pending_ask.expects)
               new == session'.active_task.execution_state
           IN  /\ new # None
               /\ get_artifact(new, key) = [text |-> msg'.text]
               /\ \A k \in ArtifactKeys \ {key, "ask_user_pending"} :
                      get_artifact(new, k) = get_artifact(old, k)]_vars

\* C13: after a resume the ask_user_pending marker is gone from the
\* artifacts of the task's ExecutionState.
C13_MarkerClearedOnResume ==
    [][(/\ pc = "idle"
        /\ pc' = "caller"
        /\ has_pending_ask(session)
        /\ session.active_task # None
        /\ ~has_pending_ask(session')) =>
           ~HasMarker(session'.active_task.execution_state)]_vars

\* C14: an answer echoed back with an ask id other than the outstanding
\* PendingAsk's is rejected: SESSION_MISMATCH is logged and the session
\* (PendingAsk, ActiveTask, ExecutionState) is exactly as before.
C14_AskIdMismatchRejected ==
    [][(/\ pc = "idle"
        /\ pc' = "caller"
        /\ has_pending_ask(session)
        /\ msg'.ask_id # 0
        /\ msg'.ask_id # session.pending_ask.ask_id) =>
           /\ Logged(telemetry', "SESSION_MISMATCH")
           /\ ret' # "result"
           /\ session' = session]_vars

\* C18: once the elapsed time of a slice exceeds max_execution_time, the loop
\* starts no further PLAN, ACT or JUDGE phase and the slice ends in FAILED.
C18_TimeLimitEnforced ==
    [][(pc = "loop" /\ time_up)
           => /\ pc' = "after_loop"
              /\ current_state' = FAILED
              /\ plan_iter' = plan_iter
              /\ exec' = exec]_vars

\* C19: a slice that ended because a budget ran out has status FAILED, an
\* error_message naming the budget, and exactly one telemetry record of the
\* dimension that tripped (BUDGET_EXCEEDED for the tool-call budget).
C19_BudgetExhaustionRecorded ==
    (pc = "caller" /\ ret = "result"
        /\ result.error_message \in {ErrTime, ErrToolCalls, ErrPlanIters})
        => /\ result.status = FAILED
           /\ Cardinality({i \in 1..Len(telemetry) :
                              telemetry[i] \in {"BUDGET_EXCEEDED", "JUDGE_LOOP"}}) = 1
           /\ result.error_message = ErrToolCalls => Logged(telemetry, "BUDGET_EXCEEDED")

(***************************************************************************)
(* Rendering of the final answer (Orchestrator._generate_final_answer).    *)
(* A text is a sequence of tokens: literal text or a {{key}} placeholder.  *)
(***************************************************************************)

\* Longest final_answer_template, in tokens.
MaxTemplate == 3

TemplateKeys == {"weather", "plan"}

Placeholder(key) == [placeholder |-> key]

TemplateTokens == {[lit |-> "text"]} \cup {Placeholder(key) : key \in TemplateKeys}

Templates == UNION {[1..n -> TemplateTokens] : n \in 0..MaxTemplate}

\* Artifact values: a string (which may itself spell a placeholder), or a
\* dict that json.dumps can or cannot serialise.
ArtifactValues ==
    {[kind |-> "str", text |-> <<[lit |-> "sunny"]>>],
     [kind |-> "str", text |-> <<Placeholder("weather")>>],
     [kind |-> "dict", serializable |-> TRUE],
     [kind |-> "dict", serializable |-> FALSE]}

\* execution_state.artifacts.items(): insertion-ordered, keys distinct.
ArtifactItems ==
    {items \in UNION {[1..n -> [key : TemplateKeys, value : ArtifactValues]] :
                         n \in 0..Cardinality(TemplateKeys)} :
        \A i, j \in 1..Len(items) : items[i].key = items[j].key => i = j}

\* placeholder in template
HasPlaceholder(template, key) ==
    \E i \in 1..Len(template) : template[i] = Placeholder(key)

\* json.dumps(value, ...) for dict and list, str(value) otherwise
value_str(value) ==
    IF value.kind = "dict" THEN <<[json |-> "dict"]>> ELSE value.text

\* template.replace(placeholder, value_str)
RECURSIVE replace(_, _, _)
replace(template, key, str) ==
    IF template = << >> THEN << >>
    ELSE (IF Head(template) = Placeholder(key) THEN str ELSE <<Head(template)>>)
         \o replace(Tail(template), key, str)

Apology == <<[lit |-> "apology"]>>

\* The for loop over the artifacts; raised is the except branch.
RECURSIVE substitute(_, _)
substitute(template, items) ==
    IF items = << >> THEN [raised |-> FALSE, template |-> template]
    ELSE LET key == Head(items).key
             value == Head(items).value
         IN  IF ~HasPlaceholder(template, key)
                 THEN substitute(template, Tail(items))
             ELSE IF value.kind = "dict" /\ ~value.serializable
                 THEN [raised |-> TRUE, template |-> template]
             ELSE substitute(replace(template, key, value_str(value)), Tail(items))

generate_final_answer(template, items) ==
    LET out == substitute(template, items)
    IN  IF out.raised THEN Apology ELSE out.template

\* orchestrate, on exit in DONE with a plan and an execution state
orchestrate_final_answer ==
    /\ call.fn = "generate_final_answer"
    /\ ~call.returned
    /\ call' = [call EXCEPT !.returned = TRUE,
                            !.final_answer =
                                generate_final_answer(call.template, call.artifacts)]
    /\ UNCHANGED orchestration_vars

InitFinalAnswer ==
    /\ InitOrchestration
    /\ call \in {[fn |-> "generate_final_answer", template |-> template,
                  artifacts |-> items, returned |-> FALSE, final_answer |-> << >>] :
                    template \in Templates, items \in ArtifactItems}

NextFinalAnswer == orchestrate_final_answer

SpecFinalAnswer == InitFinalAnswer /\ [][NextFinalAnswer]_vars

\* C15: after an exit in DONE the rendered final_answer holds no {{key}}
\* placeholder any more.
C15_NoPlaceholderLeft ==
    (call.fn = "generate_final_answer" /\ call.returned)
        => \A key \in TemplateKeys : ~HasPlaceholder(call.final_answer, key)

(***************************************************************************)
(* The event stream of one slice (AgentCore._process_with_m3_stream).      *)
(* An event is kept as its "type"; call.at is the generator's position.    *)
(***************************************************************************)

\* Longest final_plan.steps the stream walks over.
MaxPlanLen == 2

\* len(planning_steps)
planning_steps == 4

\* What orchestrate returned: orchestrate leaves status done, failed or
\* ask_user, an ask always carries its questions, and a final answer is only
\* rendered on done.
StreamResults ==
    {r \in [status : {DONE, FAILED, ASK_USER},
            pending_questions : {<< >>, <<CityQuestion>>},
            steps : UNION {[1..n -> StepTypes] : n \in 0..MaxPlanLen},
            final_answer : BOOLEAN] :
        /\ r.pending_questions # << >> <=> r.status = ASK_USER
        /\ r.final_answer => r.status = DONE}

\* orchestrator: self.orchestrator is set; is_resume: context holds
\* user_answer; raises: orchestrate raises (its post-mortem logger calls lie
\* outside its try block).
StreamCalls ==
    [fn : {"process_with_m3_stream"}, orchestrator : BOOLEAN, is_resume : BOOLEAN,
     raises : BOOLEAN, result : StreamResults,
     at : {"start"}, i : {0}, events : {<< >>}]

\* if not hasattr(self, 'orchestrator') ...: yield error, and no return
stream_begin_without_return ==
    /\ call.fn = "process_with_m3_stream"
    /\ call.at = "start"
    /\ IF ~call.orchestrator
           THEN call' = [call EXCEPT !.events = <<"error">>, !.at = "planning"]
       ELSE IF call.is_resume
           THEN call' = [call EXCEPT !.events = <<"status">>, !.at = "orchestrate"]
       ELSE call' = [call EXCEPT !.events = <<"status">>, !.at = "planning"]
    /\ UNCHANGED orchestration_vars

\* Up to the first status event.
stream_begin ==
    /\ call.fn = "process_with_m3_stream"
    /\ call.at = "start"
    /\ IF ~call.orchestrator
           THEN call' = [call EXCEPT !.events = <<"error">>, !.at = "end"]
       ELSE IF call.is_resume
           THEN call' = [call EXCEPT !.events = <<"status">>, !.at = "orchestrate"]
       ELSE call' = [call EXCEPT !.events = <<"status">>, !.at = "planning"]
    /\ UNCHANGED orchestration_vars

\* for step in planning_steps: yield assistant_content
stream_planning_step ==
    /\ call.fn = "process_with_m3_stream"
    /\ call.at = "planning"
    /\ call' = [call EXCEPT !.events = Append(@, "assistant_content"),
                            !.i = IF call.i + 1 = planning_steps THEN 0 ELSE call.i + 1,
                            !.at = IF call.i + 1 = planning_steps
                                       THEN "orchestrate" ELSE "planning"]
    /\ UNCHANGED orchestration_vars

\* if result.status == "ask_user" and result.pending_questions (and the same
\* for "waiting_for_user")
StreamAsks(r) ==
    /\ r.status \in {"ask_user", "waiting_for_user"}
    /\ r.pending_questions # << >>

\* await orchestrate(...), then the ask_user event and return, or the
\* "executing" status; an exception goes to the except clause.
stream_orchestrate ==
    /\ call.fn = "process_with_m3_stream"
    /\ call.at = "orchestrate"
    /\ IF call.raises
           THEN call' = [call EXCEPT !.events = Append(@, "error"), !.at = "end"]
       ELSE IF StreamAsks(call.result)
           THEN call' = [call EXCEPT !.events = Append(@, "ask_user"), !.at = "end"]
       ELSE call' = [call EXCEPT !.events = Append(@, "status"), !.at = "steps",
                                 !.i = 1]
    /\ UNCHANGED orchestration_vars

\* The events of one plan step: tool_trace, then a line of content for every
\* step type but write_file.
step_events(type) ==
    IF type \in {"tool_call", "web_search", "ask_user", "summarize"}
        THEN <<"tool_trace", "assistant_content">>
    ELSE <<"tool_trace">>

\* for i, step in enumerate(result.final_plan.steps, 1)
stream_step ==
    /\ call.fn = "process_with_m3_stream"
    /\ call.at = "steps"
    /\ call.i <= Len(call.result.steps)
    /\ call' = [call EXCEPT !.events = @ \o step_events(call.result.steps[call.i]),
                            !.i = call.i + 1]
    /\ UNCHANGED orchestration_vars

\* final_content is not empty: there is a final answer, or the status is
\* "completed" (which orchestrate never returns).
has_final_content(r) == r.final_answer \/ r.status = "completed"

\* The final content, then the "finished" status.
stream_finish ==
    /\ call.fn = "process_with_m3_stream"
    /\ call.at = "steps"
    /\ call.i > Len(call.result.steps)
    /\ call' = [call EXCEPT !.events =
                                @ \o (IF has_final_content(call.result)
                                          THEN <<"assistant_content">> ELSE << >>)
                                  \o <<"status">>,
                            !.at = "end"]
    /\ UNCHANGED orchestration_vars

InitStream == InitOrchestration /\ call \in StreamCalls

NextStream ==
    \/ stream_begin
    \/ stream_planning_step
    \/ stream_orchestrate
    \/ stream_step
    \/ stream_finish

SpecStream == InitStream /\ [][NextStream]_vars

\* C16: within one slice no assistant_content event comes after a
\* final_answer or an error event.
C16_NoContentAfterFinalOrError ==
    call.fn = "process_with_m3_stream"
        => \A i, j \in 1..Len(call.events) :
               (i < j /\ call.events[i] \in {"final_answer", "error"})
                   => call.events[j] # "assistant_content"

\* A slice that streamed content and then failed: the error event closes it.
C16_ErrorAfterContent ==
    /\ call.fn = "process_with_m3_stream"
    /\ call.at = "end"
    /\ Len(call.events) > planning_steps
    /\ call.events[Len(call.events)] = "error"
    /\ \E i \in 1..Len(call.events) : call.events[i] = "assistant_content"

\* C17: a slice that suspends for a user question ends its events with
\* ask_user_open.
C17_AskUserOpenIsLast ==
    (/\ call.fn = "process_with_m3_stream"
     /\ call.at = "end"
     /\ call.orchestrator
     /\ ~call.raises
     /\ call.result.status = ASK_USER)
        => /\ call.events # << >>
           /\ call.events[Len(call.events)] = "ask_user_open"

(***************************************************************************)
(* Tool dispatch (ToolExecutor.execute_tool).                              *)
(***************************************************************************)

ToolNames == {"weather_get", "time_now", "math_calc", "date_normalize", "nonexistent_tool"}

\* What tool.run does when it is called: it returns a StandardToolResult
\* (ok or failure), raises, or runs longer than the tool's timeout.
ToolBehaviours == {"returns_ok", "returns_failure", "raises", "times_out"}

\* registered: some tool of the list has this name; is_async: tool.run is a
\* coroutine function; loop_running: the caller runs inside an event loop.
ToolCalls ==
    {c \in [fn : {"execute_tool"}, tool_name : ToolNames, registered : BOOLEAN,
            is_async : BOOLEAN, loop_running : BOOLEAN, behaviour : ToolBehaviours,
            returned : {FALSE}, outcome : {[raised |-> FALSE, value |-> None]}] :
        c.tool_name = "nonexistent_tool" => ~c.registered}

\* raise ToolError(tool_name, message, retryable)
ToolError(name, retryable) ==
    [raised |-> TRUE, value |-> [exception |-> "ToolError", name |-> name,
                                 retryable |-> retryable]]

\* The tool's own return value.
ToolValue(behaviour) ==
    IF behaviour = "returns_failure"
        THEN [ok |-> FALSE, code |-> "INVALID_INPUT", retryable |-> FALSE]
    ELSE [ok |-> TRUE]

\* _get_tool_timeout_default: a plain dict {"error": text}; date_normalize and
\* unknown names get the generic text.
get_tool_timeout_default(tool_name) ==
    [error |-> IF tool_name \in {"weather_get", "time_now", "math_calc"}
               THEN tool_name ELSE "generic"]

\* execute_tool(tool_name, tools, **kwargs): what it returns or raises.
execute_tool(c) ==
    IF ~c.registered
        THEN \* if tool is None: raise ToolError(..., retryable=False)
             ToolError(c.tool_name, FALSE)
    ELSE IF ~c.is_async
        THEN \* result = tool.run(**kwargs); no timeout applies to it
             IF c.behaviour = "raises"
                 THEN [raised |-> FALSE, value |-> get_tool_timeout_default(c.tool_name)]
             ELSE [raised |-> FALSE, value |-> ToolValue(c.behaviour)]
    ELSE IF c.loop_running
        THEN \* future.result(timeout=tool_timeout)
             IF c.behaviour = "times_out"
                 THEN [raised |-> FALSE, value |-> get_tool_timeout_default(c.tool_name)]
             ELSE IF c.behaviour = "raises"
                 THEN \* the fallback tool.run(**kwargs) of a coroutine
                      \* function returns a coroutine object
                      [raised |-> FALSE, value |-> [coroutine |-> TRUE]]
             ELSE [raised |-> FALSE, value |-> ToolValue(c.behaviour)]
    ELSE \* loop.run_until_complete(tool.run(**kwargs)), without a timeout
         IF c.behaviour = "raises"
             THEN \* "except concurrent.futures.TimeoutError" reads the local
                  \* name concurrent, which was never bound: the
                  \* UnboundLocalError reaches the outer except clause
                  ToolError(c.tool_name, FALSE)
         ELSE [raised |-> FALSE, value |-> ToolValue(c.behaviour)]

\* The Executor dispatches one tool.
dispatch_tool ==
    /\ call.fn = "execute_tool"
    /\ ~call.returned
    /\ call' = [call EXCEPT !.returned = TRUE, !.outcome = execute_tool(call)]
    /\ UNCHANGED orchestration_vars

InitDispatch == InitOrchestration /\ call \in ToolCalls

NextDispatch == dispatch_tool

SpecDispatch == InitDispatch /\ [][NextDispatch]_vars

\* The call did not get a tool's own result: the name is unknown, the tool
\* raised, or an enforced timeout ran out.
DispatchFailed(c) ==
    \/ ~c.registered
    \/ c.behaviour = "raises"
    \/ c.behaviour = "times_out" /\ c.is_async /\ c.loop_running

\* C20: dispatching a tool never raises; an unknown tool, a raising tool and
\* a timeout all come back as an envelope with ok = false and an error code
\* (a timeout: code INTERNAL, retryable).
C20_DispatchNeverRaises ==
    (call.fn = "execute_tool" /\ call.returned)
        => /\ ~call.outcome.raised
           /\ DispatchFailed(call)
                  => /\ "ok" \in DOMAIN call.outcome.value
                     /\ ~call.outcome.value.ok
                     /\ "code" \in DOMAIN call.outcome.value
           /\ (call.registered /\ call.behaviour = "times_out"
                   /\ call.is_async /\ call.loop_running)
                  => /\ "code" \in DOMAIN call.outcome.value
                     /\ call.outcome.value.code = "INTERNAL"
                     /\ call.outcome.value.retryable

(***************************************************************************)
(* Construction of a tool result (StandardToolResult.__init__).            *)
(***************************************************************************)

ErrorCode == {"NETWORK", "NOT_FOUND", "INVALID_INPUT", "RATE_LIMIT", "INTERNAL"}

\* The keyword arguments of a construction.  data: None, a dict, or a value
\* that is no dict; meta may be left out.
ToolResultArgs ==
    [fn : {"StandardToolResult"}, ok : BOOLEAN,
     data : {None, [dict |-> TRUE], [dict |-> FALSE]},
     error : {None} \cup [code : ErrorCode, retryable : BOOLEAN],
     meta : {None, [source |-> "tool"]},
     returned : {FALSE}, outcome : {[raised |-> FALSE, value |-> None]}]

\* super().__init__(**data): the field types of the pydantic model.
ToolResultFieldsValid(a) ==
    /\ a.data # [dict |-> FALSE]
    /\ a.meta # None

\* StandardToolResult(**data): the object built, or the exception raised.
StandardToolResult(a) ==
    IF ~ToolResultFieldsValid(a)
        THEN [raised |-> TRUE, value |-> [exception |-> "ValidationError"]]
    ELSE IF a.ok /\ a.error # None
        THEN [raised |-> TRUE, value |-> [exception |-> "ValueError"]]
    ELSE IF ~a.ok /\ a.error = None
        THEN [raised |-> TRUE, value |-> [exception |-> "ValueError"]]
    ELSE [raised |-> FALSE,
          value |-> [ok |-> a.ok, data |-> a.data, error |-> a.error, meta |-> a.meta]]

\* A tool builds its result.
construct_tool_result ==
    /\ call.fn = "StandardToolResult"
    /\ ~call.returned
    /\ call' = [call EXCEPT !.returned = TRUE, !.outcome = StandardToolResult(call)]
    /\ UNCHANGED orchestration_vars

InitToolResult == InitOrchestration /\ call \in ToolResultArgs

NextToolResult == construct_tool_result

SpecToolResult == InitToolResult /\ [][NextToolResult]_vars

\* C21: every tool result that was constructed has exactly one of data and
\* error, as ok says: ok means data and no error, not ok means error and no
\* data.
C21_DataXorError ==
    (call.fn = "StandardToolResult" /\ call.returned /\ ~call.outcome.raised)
        => LET r == call.outcome.value
           IN  /\ r.ok => (r.data # None /\ r.error = None)
               /\ ~r.ok => (r.error # None /\ r.data = None)

(***************************************************************************)
(* Validation of the Planner's response (validate_planner_output and the   *)
(* PlannerOutput model).                                                   *)
(***************************************************************************)

\* Longest list of steps with dependencies in a response.
MaxResponseSteps == 3

\* max_steps: Field(..., gt=0, le=10)
max_steps_le == 10

ResponseStepIds == {"s1", "s2", "s3"}

\* depends_on lists: empty, one known id, or an id no step has.
DependsOnLists == {{}} \cup {{dep} : dep \in ResponseStepIds \cup {"s9"}}

ResponseSteps == [id : ResponseStepIds, depends_on : DependsOnLists]

\* A plan of max_steps_le + 1 independent steps.
LongStepList ==
    [i \in 1..(max_steps_le + 1) |-> [id |-> "s" \o ToString(i), depends_on |-> {}]]

ResponseStepLists ==
    UNION {[1..n -> ResponseSteps] : n \in 0..MaxResponseSteps} \cup {LongStepList}

\* The parsed JSON of a response, as far as the validators look at it.
PlannerResponses ==
    [max_steps : {0, 1, 2, max_steps_le, max_steps_le + 1}, steps : ResponseStepLists]

\* PlannerOutput.validate_steps: every dep is the id of some step of the list.
validate_steps(v) ==
    LET step_ids == {v[i].id : i \in 1..Len(v)}
    IN  \A i \in 1..Len(v) : \A dep \in v[i].depends_on : dep \in step_ids

\* validate_planner_output: PlannerOutput(**data) does not raise.
validate_planner_output(data) ==
    /\ data.max_steps > 0
    /\ data.max_steps <= max_steps_le
    /\ Len(data.steps) >= 1
    /\ validate_steps(data.steps)

\* Planner.create_plan validates one response of the model.
create_plan_validate ==
    /\ call.fn = "validate_planner_output"
    /\ ~call.returned
    /\ call' = [call EXCEPT !.returned = TRUE,
                            !.accepted = validate_planner_output(call.data)]
    /\ UNCHANGED orchestration_vars

InitPlannerOutput ==
    /\ InitOrchestration
    /\ call \in [fn : {"validate_planner_output"}, data : PlannerResponses,
                 returned : {FALSE}, accepted : {FALSE}]

NextPlannerOutput == create_plan_validate

SpecPlannerOutput == InitPlannerOutput /\ [][NextPlannerOutput]_vars

\* C22: in every accepted plan each depends_on entry names the id of a step
\* that comes earlier in the list of steps.
C22_DependsOnEarlierStep ==
    (call.fn = "validate_planner_output" /\ call.returned /\ call.accepted)
        => LET steps == call.data.steps
           IN  \A i \in 1..Len(steps) : \A dep \in steps[i].depends_on :
                   \E j \in 1..(i - 1) : steps[j].id = dep

\* C23: every accepted plan has at most max_steps steps, max_steps being
\* between 1 and 10.
C23_StepsWithinMaxSteps ==
    (call.fn = "validate_planner_output" /\ call.returned /\ call.accepted)
        => /\ call.data.max_steps \in 1..max_steps_le
           /\ Len(call.data.steps) <= call.data.max_steps

(***************************************************************************)
(* Validation of the Judge's response (validate_judge_output and the       *)
(* JudgeOutput model).                                                     *)
(***************************************************************************)

\* A field of the response: left out, null, or a list.
FieldAbsent == [given |-> "absent", items |-> << >>]
FieldNull == [given |-> "null", items |-> << >>]
FieldList(items) == [given |-> "list", items |-> items]

\* none_validated: the installed pydantic runs field validators on an
\* explicit null of an Optional field (version 2) or skips them (version 1).
JudgeResponses ==
    [satisfied : BOOLEAN,
     missing : {FieldAbsent, FieldList(<< >>), FieldList(<<"evidence">>)},
     questions : {FieldAbsent, FieldNull, FieldList(<< >>), FieldList(<<"q1">>),
                  FieldList(<<"q1", "q2">>), FieldList(<<"q1", "q2", "q3">>)},
     none_validated : BOOLEAN]

\* A field's validators run for a given value only: never for a default.
ValidatorsRun(field, none_validated) ==
    \/ field.given = "list"
    \/ field.given = "null" /\ none_validated

\* validate_questions: at most two questions
validate_questions(v) == Len(v.items) <= 2

\* validate_conditional_fields(v, values), run for missing and for questions.
\* values holds the fields validated before this one and never this field, so
\* values.get('questions') is None both times.
validate_conditional_fields(v, satisfied) == satisfied \/ v.items # << >>

\* validate_judge_output: JudgeOutput(**data) does not raise.
validate_judge_output(data) ==
    /\ ValidatorsRun(data.missing, data.none_validated)
           => validate_conditional_fields(data.missing, data.satisfied)
    /\ ValidatorsRun(data.questions, data.none_validated)
           => /\ validate_questions(data.questions)
              /\ validate_conditional_fields(data.questions, data.satisfied)

\* Judge.evaluate_execution validates one response of the model.
evaluate_execution_validate ==
    /\ call.fn = "validate_judge_output"
    /\ ~call.returned
    /\ call' = [call EXCEPT !.returned = TRUE,
                            !.accepted = validate_judge_output(call.data)]
    /\ UNCHANGED orchestration_vars

InitJudgeOutput ==
    /\ InitOrchestration
    /\ call \in [fn : {"validate_judge_output"}, data : JudgeResponses,
                 returned : {FALSE}, accepted : {FALSE}]

NextJudgeOutput == evaluate_execution_validate

SpecJudgeOutput == InitJudgeOutput /\ [][NextJudgeOutput]_vars

\* C24: a verdict with satisfied = false (and at most two questions) is
\* accepted exactly when missing or questions is not empty.
C24_UnsatisfiedNeedsMissingOrQuestions ==
    (/\ call.fn = "validate_judge_output"
     /\ call.returned
     /\ ~call.data.satisfied
     /\ Len(call.data.questions.items) <= 2)
        => (call.accepted <=> \/ call.data.missing.items # << >>
                              \/ call.data.questions.items # << >>)

(***************************************************************************)
(* The retry loops of the two LLM stages (Planner.create_plan and          *)
(* Judge.evaluate_execution).                                              *)
(***************************************************************************)

\* self.max_retries = 2, in Planner.__init__ and in Judge.__init__
max_retries == 2

\* What one llm.generate call leads to: a response that validates (for the
\* Judge: a satisfied or an unsatisfied verdict), one that is no JSON, one
\* that breaks the schema, or an exception of the LLM interface.
PlannerResponseKinds == {"valid", "invalid_json", "schema_error", "llm_error"}
JudgeResponseKinds == PlannerResponseKinds \cup {"valid_unsatisfied"}

FailsValidation(kind) == kind \in {"invalid_json", "schema_error"}

\* One stage invocation, with the response each attempt would get.
StageCalls ==
    [fn : {"create_plan"}, responses : [1..(max_retries + 1) -> PlannerResponseKinds],
     attempt : {0}, llm_calls : {0}, returned : {FALSE}, outcome : {"none"},
     events : {<< >>}]
    \cup
    [fn : {"evaluate_execution"}, responses : [1..(max_retries + 1) -> JudgeResponseKinds],
     attempt : {0}, llm_calls : {0}, returned : {FALSE}, outcome : {"none"},
     events : {<< >>}]

\* One pass of "for attempt in range(self.max_retries + 1)" in create_plan.
create_plan_attempt ==
    /\ call.fn = "create_plan"
    /\ ~call.returned
    /\ LET kind == call.responses[call.attempt + 1]
           c1 == [call EXCEPT !.llm_calls = @ + 1]
       IN  call' =
             IF kind = "valid"
                 THEN [c1 EXCEPT !.returned = TRUE, !.outcome = "validated"]
             ELSE IF FailsValidation(kind)
                 THEN \* except ValueError: PLANNER_NON_JSON, retry or fallback
                      IF call.attempt < max_retries
                          THEN [c1 EXCEPT !.events = Append(@, "PLANNER_NON_JSON"),
                                          !.attempt = @ + 1]
                      ELSE [c1 EXCEPT !.events = Append(@, "PLANNER_NON_JSON"),
                                      !.returned = TRUE, !.outcome = "fallback"]
             ELSE \* except Exception: retry or raise e
                  IF call.attempt < max_retries
                      THEN [c1 EXCEPT !.attempt = @ + 1]
                  ELSE [c1 EXCEPT !.returned = TRUE, !.outcome = "raised"]
    /\ UNCHANGED orchestration_vars

\* One pass of the loop in evaluate_execution.
evaluate_execution_attempt ==
    /\ call.fn = "evaluate_execution"
    /\ ~call.returned
    /\ LET kind == call.responses[call.attempt + 1]
           c1 == [call EXCEPT !.llm_calls = @ + 1]
       IN  call' =
             IF kind = "valid"
                 THEN [c1 EXCEPT !.returned = TRUE, !.outcome = "validated"]
             ELSE IF kind = "valid_unsatisfied"
                 THEN [c1 EXCEPT !.events = Append(@, "SPEC_MISMATCH"),
                                 !.returned = TRUE, !.outcome = "validated"]
             ELSE \* except Exception: retry or the conservative verdict
                  IF call.attempt < max_retries
                      THEN [c1 EXCEPT !.attempt = @ + 1]
                  ELSE [c1 EXCEPT !.returned = TRUE, !.outcome = "fallback"]
    /\ UNCHANGED orchestration_vars

InitStage == InitOrchestration /\ call \in StageCalls

NextStage ==
    \/ create_plan_attempt
    \/ evaluate_execution_attempt

SpecStage == InitStage /\ [][NextStage]_vars

\* C25: a stage whose responses fail validation retries exactly once: it
\* makes at most two LLM calls, and when the retry fails too it returns its
\* fallback; it does not raise.
C25_OneRetryThenFallback ==
    (/\ call.fn \in {"create_plan", "evaluate_execution"}
     /\ call.returned
     /\ \A i \in 1..call.llm_calls : call.responses[i] # "llm_error")
        => /\ call.llm_calls <= 2
           /\ call.outcome # "raised"
           /\ (FailsValidation(call.responses[1]) /\ FailsValidation(call.responses[2]))
                  => call.outcome = "fallback"

(***************************************************************************)
(* File writes made for a plan step: the tools fs_write (ToolFSWrite) and  *)
(* file_write (ToolFileWriter).  A location is a region of the file system *)
(* and a depth below the region's top directory.                           *)
(***************************************************************************)

\* Most directory components in a requested path.
MaxPathLen == 2

\* "docs" is a plain directory, "escape" a symbolic link to a directory
\* outside every region named below.
PathSegments == {"docs", "..", "escape"}

\* How the path string starts: a relative path, "/", "~", the alias 桌面
\* or the alias root of file_write.
PathRoots == {"relative", "absolute", "tilde", "desktop_alias", "root_alias"}

\* The special intent of fs_write.
DesktopIntent == [root |-> "desktop_intent", segs |-> << >>]

RequestedPaths ==
    [root : PathRoots, segs : UNION {[1..n -> PathSegments] : n \in 0..MaxPathLen}]
    \cup {DesktopIntent}

\* desktop: DESKTOP_DIR; home: the rest of the home directory; workspace:
\* Path.cwd(); outside: anywhere else.
At(region, depth) == [region |-> region, depth |-> depth]

\* One component of a path, followed from loc.
PathStep(loc, seg, workspace_in_home) ==
    IF loc.region = "outside" THEN loc
    ELSE IF seg = "docs" THEN At(loc.region, loc.depth + 1)
    ELSE IF seg = "escape" THEN At("outside", 0)
    ELSE IF loc.depth > 0 THEN At(loc.region, loc.depth - 1)
    ELSE IF loc.region = "desktop" THEN At("home", 1)
    ELSE IF loc.region = "workspace" /\ workspace_in_home THEN At("home", 0)
    ELSE At("outside", 0)

\* Path.resolve(), and what open() does with the path.
RECURSIVE PathResolve(_, _, _)
PathResolve(loc, segs, workspace_in_home) ==
    IF segs = << >> THEN loc
    ELSE PathResolve(PathStep(loc, Head(segs), workspace_in_home), Tail(segs),
                     workspace_in_home)

\* ToolFSWrite._normalize_path: the resolved location, or rejected (it raises
\* ValueError).  "~" and the alias words are ordinary directory names here.
normalize_path(c) ==
    IF c.path = DesktopIntent
        THEN [rejected |-> FALSE, location |-> At("desktop", 0)]
    ELSE IF c.path.root = "absolute"
        THEN [rejected |-> TRUE, location |-> At("outside", 0)]
    ELSE IF \E i \in 1..Len(c.path.segs) : c.path.segs[i] = ".."
        THEN [rejected |-> TRUE, location |-> At("outside", 0)]
    ELSE LET start == IF c.path.root = "relative" THEN At("workspace", 0)
                      ELSE At("workspace", 1)
             resolved_path == PathResolve(start, c.path.segs, c.workspace_in_home)
         IN  [rejected |-> resolved_path.region \notin {"workspace", "desktop"},
              location |-> resolved_path]

\* ToolFileWriter._resolve_path, then the path as open() follows it.
resolve_path(c) ==
    LET start == IF c.path.root = "tilde" THEN At("home", 0)
                 ELSE IF c.path.root = "desktop_alias" THEN At("home", 1)
                 ELSE IF c.path.root \in {"absolute", "root_alias"} THEN At("outside", 0)
                 ELSE At("workspace", 0)
    IN  PathResolve(start, c.path.segs, c.workspace_in_home)

NoWrite == [written |-> FALSE, location |-> At("outside", 0)]

\* ToolFSWrite.run
fs_write_run(c) ==
    LET normalized == normalize_path(c)
    IN  IF normalized.rejected \/ ~c.parent_ok
            THEN \* except ValueError
                 [write |-> NoWrite, raised |-> FALSE,
                  value |-> [ok |-> FALSE, code |-> "INVALID_INPUT", retryable |-> FALSE]]
        ELSE [write |-> [written |-> TRUE, location |-> normalized.location],
              raised |-> FALSE, value |-> [ok |-> TRUE]]

\* ToolFileWriter.run
file_write_run(c) ==
    IF ~c.parent_ok
        THEN [write |-> NoWrite, raised |-> TRUE, value |-> [exception |-> "ValueError"]]
    ELSE [write |-> [written |-> TRUE, location |-> resolve_path(c)],
          raised |-> FALSE, value |-> [file_path |-> "path"]]

\* A write_file step always goes to fs_write; a tool_call step names its tool.
\* parent_ok: the parent directory exists or may be created.
WriteCalls ==
    {c \in [fn : {"write"}, step_type : {"write_file", "tool_call"},
            tool : {"fs_write", "file_write"}, path : RequestedPaths,
            workspace_in_home : BOOLEAN, parent_ok : BOOLEAN,
            returned : {FALSE}, outcome : {[write |-> NoWrite]}, events : {<< >>}] :
        c.step_type = "write_file" => c.tool = "fs_write"}

\* Executor._execute_write_file, or _execute_tool_call for a writing tool.
execute_write ==
    /\ call.fn = "write"
    /\ ~call.returned
    /\ call' = [call EXCEPT !.returned = TRUE,
                            !.outcome = IF call.tool = "fs_write"
                                        THEN fs_write_run(call)
                                        ELSE file_write_run(call)]
    /\ UNCHANGED orchestration_vars

InitWrite == InitOrchestration /\ call \in WriteCalls

NextWrite == execute_write

SpecWrite == InitWrite /\ [][NextWrite]_vars

\* C26: every file written for a plan step lies under DESKTOP_DIR or under
\* the user's home directory.
C26_WritesStayInSandbox ==
    (call.fn = "write" /\ call.returned /\ call.outcome.write.written)
        => \/ call.outcome.write.location.region \in {"desktop", "home"}
           \/ /\ call.outcome.write.location.region = "workspace"
              /\ call.workspace_in_home

\* The request names an absolute path, a path with "..", or a path that
\* resolves outside the permitted directories.
OutOfSandboxRequest(c) ==
    /\ c.path # DesktopIntent
    /\ \/ c.path.root = "absolute"
       \/ \E i \in 1..Len(c.path.segs) : c.path.segs[i] = ".."
       \/ normalize_path(c).location.region = "outside"

\* C27: fs_write answers such a request with an error result of code
\* PERMISSION_DENIED, not retryable, and a WRITE_OUT_OF_SANDBOX record.
C27_OutOfSandboxDenied ==
    (/\ call.fn = "write"
     /\ call.returned
     /\ call.tool = "fs_write"
     /\ OutOfSandboxRequest(call))
        => /\ ~call.outcome.write.written
           /\ ~call.outcome.value.ok
           /\ call.outcome.value.code = "PERMISSION_DENIED"
           /\ ~call.outcome.value.retryable
           /\ Logged(call.events, "WRITE_OUT_OF_SANDBOX")

(***************************************************************************)
(* Concurrent deliveries: several process_message coroutines and the       *)
(* global session map _sessions.  No lock is taken anywhere in             *)
(* orchestrator.py; a coroutine gives up control at each await of a phase. *)
(***************************************************************************)

\* Messages delivered concurrently.
MaxSlices == 2

SessionIds == {"session_a", "session_b"}

\* Where a slice is suspended: before process_message has run, inside one of
\* the awaited phases of orchestrate, or after its return.
SlicePhases == {"plan_phase", "act_phase", "judge_phase"}

InFlight(s) == s.at \in SlicePhases

SliceCalls ==
    [fn : {"slices"},
     sessions : {{}},
     touched : {[sid \in SessionIds |-> 0]},
     slice : [1..MaxSlices -> [session_id : SessionIds, at : {"delivered"}]]]

\* process_message up to its first await: get_session (insert on a miss),
\* the classification, session.start_new_task(), then orchestrate until
\* `await self._plan_phase`.
slice_process_message(i) ==
    /\ call.fn = "slices"
    /\ call.slice[i].at = "delivered"
    /\ call' = [call EXCEPT
            !.sessions = @ \cup {call.slice[i].session_id},
            !.touched[call.slice[i].session_id] = i,
            !.slice[i].at = "plan_phase"]
    /\ UNCHANGED orchestration_vars

\* The awaited phase completes and the loop of orchestrate goes on to the
\* next await, or leaves the loop and returns; the slice writes the task's
\* execution state on the way.
slice_resume(i) ==
    /\ call.fn = "slices"
    /\ InFlight(call.slice[i])
    /\ \E next_at \in CASE call.slice[i].at = "plan_phase" -> {"act_phase", "returned"}
                        [] call.slice[i].at = "act_phase" -> {"judge_phase"}
                        [] OTHER -> {"plan_phase", "returned"} :
          call' = [call EXCEPT !.touched[call.slice[i].session_id] = i,
                               !.slice[i].at = next_at]
    /\ UNCHANGED orchestration_vars

\* cleanup_old_sessions, for a session older than 24 hours.
cleanup_old_sessions ==
    /\ call.fn = "slices"
    /\ \E sid \in call.sessions :
          call' = [call EXCEPT !.sessions = @ \ {sid}]
    /\ UNCHANGED orchestration_vars

InitSlices == InitOrchestration /\ call \in SliceCalls

NextSlices ==
    \/ \E i \in 1..MaxSlices : slice_process_message(i)
    \/ \E i \in 1..MaxSlices : slice_resume(i)
    \/ cleanup_old_sessions

SpecSlices == InitSlices /\ [][NextSlices]_vars

\* C28: at most one slice is operating on a given session at any time.
C28_OneSlicePerSession ==
    call.fn = "slices" =>
        \A i, j \in 1..MaxSlices :
            (i # j /\ InFlight(call.slice[i]) /\ InFlight(call.slice[j]))
                => call.slice[i].session_id # call.slice[j].session_id

(***************************************************************************)
(* Executor.execute_plan on an explicit plan: the order given by           *)
(* _topological_sort, then one step after another.                         *)
(***************************************************************************)

\* Step ids; sorting by id is sorting by number.
ExecStepIds == 1..MaxPlanLen

\* outcome "ok": the step's handler returns a result; "failed_result": the
\* tool returns a StandardToolResult with ok = False; "raise": the handler
\* raises.  An ask_user step goes through execute_tool, which turns every
\* exception of the tool into a default result.  retry matters after a raise
\* only.  output_key "out" is a key of the step's own.
ExecSteps(ids) ==
    {st \in [id : ids, type : {"tool_call", "ask_user"}, depends_on : SUBSET ids,
             outcome : {"ok", "failed_result", "raise"}, retry : {0, 1},
             output_key : {"out", "ask_user_pending"}] :
        /\ st.type = "ask_user" => st.outcome = "ok"
        /\ st.type = "tool_call" => st.output_key = "out"
        /\ st.outcome # "raise" => st.retry = 0}

\* Plans that pass PlannerOutput's validators: distinct ids, every
\* depends_on entry the id of some step of the plan.
ExecPlans ==
    UNION {{p \in [1..n -> ExecSteps(1..n)] :
               \A i, j \in 1..n : i # j => p[i].id # p[j].id} : n \in 1..MaxPlanLen}

StepIdsOf(steps) == {steps[i].id : i \in 1..Len(steps)}

\* One round of the while loop of _topological_sort and the rounds after it.
RECURSIVE topological_sort_from(_, _)
topological_sort_from(sorted_steps, remaining) ==
    IF remaining = << >> THEN sorted_steps
    ELSE LET deps_satisfied(step) == step.depends_on \subseteq StepIdsOf(sorted_steps)
             executable == SelectSeq(remaining, deps_satisfied)
             not_executable(step) == ~deps_satisfied(step)
         IN  IF executable = << >>
                 THEN \* "skip the dependency check": sorted_steps.extend(remaining)
                      sorted_steps \o remaining
             ELSE topological_sort_from(
                      sorted_steps \o SortSeq(executable, LAMBDA a, b : a.id < b.id),
                      SelectSeq(remaining, not_executable))

\* Executor._topological_sort
topological_sort(steps) == topological_sort_from(<< >>, steps)

\* What the ask_user tool returns.
AskUserResult == [questions |-> <<CityQuestion>>, expects |-> "city", output_key |-> "user_city"]

ExecutePlanCalls ==
    [fn : {"execute_plan"}, steps : ExecPlans, sorted_steps : {<< >>}, i : {0},
     tool_call_count : {0}, artifacts : {{}}, ask_user_pending : {Absent},
     completed_steps : {<< >>}, errors : {0}, started : {<< >>}, returned : {FALSE}]

\* execute_plan up to the for loop.
execute_plan_begin ==
    /\ call.fn = "execute_plan"
    /\ call.i = 0
    /\ call' = [call EXCEPT !.sorted_steps = topological_sort(call.steps), !.i = 1]
    /\ UNCHANGED orchestration_vars

\* The for loop ends before index i: no step left, or the tool call budget
\* of the phase is used up.
PlanLoopOver(c, i) ==
    \/ i > Len(c.sorted_steps)
    \/ c.tool_call_count >= max_tool_calls_per_act

\* One iteration of `for step in sorted_steps`, with _execute_step.
execute_plan_step ==
    /\ call.fn = "execute_plan"
    /\ call.i >= 1
    /\ ~call.returned
    /\ ~PlanLoopOver(call, call.i)
    /\ LET step == call.sorted_steps[call.i]
           begun == [call EXCEPT !.started = Append(@, step.id), !.i = @ + 1]
       IN  IF step.outcome = "raise"
               THEN \* except Exception: errors.append; break when retry == 0
                    LET after == [begun EXCEPT !.errors = @ + 1]
                    IN  call' = [after EXCEPT !.returned =
                                     step.retry = 0 \/ PlanLoopOver(after, after.i)]
           ELSE \* the handler stores its result under step.output_key;
                \* ask_user is called without `state`, so the tool sets nothing
                LET stored == IF step.output_key = "ask_user_pending"
                              THEN [begun EXCEPT !.ask_user_pending = AskUserResult]
                              ELSE [begun EXCEPT !.artifacts = @ \cup {step.id}]
                    counted == [stored EXCEPT !.tool_call_count =
                                    @ + (IF step.type = "tool_call" THEN 1 ELSE 0)]
                IN  IF counted.ask_user_pending # Absent
                        THEN \* return state
                             call' = [counted EXCEPT !.returned = TRUE]
                    ELSE LET after == [counted EXCEPT
                                          !.completed_steps = Append(@, step.id)]
                         IN  call' = [after EXCEPT
                                         !.returned = PlanLoopOver(after, after.i)]
    /\ UNCHANGED orchestration_vars

InitExecutePlan == InitOrchestration /\ call \in ExecutePlanCalls

NextExecutePlan ==
    \/ execute_plan_begin
    \/ execute_plan_step

SpecExecutePlan == InitExecutePlan /\ [][NextExecutePlan]_vars

\* The step whose iteration ran last.
LastStarted(c) ==
    CHOOSE st \in {c.steps[k] : k \in 1..Len(c.steps)} : st.id = c.started[Len(c.started)]

\* C29: once an ask_user step has been executed, the state holds the
\* ask_user_pending marker with its questions, expected kind and output
\* key, the step is not among completed_steps, and execute_plan has
\* returned, so no later step runs.
C29_AskUserStepHalts ==
    (/\ call.fn = "execute_plan"
     /\ call.started # << >>
     /\ LastStarted(call).type = "ask_user")
        => /\ call.ask_user_pending # Absent
           /\ {"questions", "expects", "output_key"} \subseteq DOMAIN call.ask_user_pending
           /\ \A k \in 1..Len(call.completed_steps) :
                  call.completed_steps[k] # LastStarted(call).id
           /\ call.returned

\* C30: a step is started only when every step in its depends_on is among
\* completed_steps and has written its artifact.
C30_StartsAfterDependencies ==
    [][(call.fn = "execute_plan" /\ call'.fn = "execute_plan"
            /\ call'.started # call.started)
          => \A dep \in LastStarted(call').depends_on :
                /\ \E k \in 1..Len(call.completed_steps) : call.completed_steps[k] = dep
                /\ dep \in call.artifacts]_vars

(***************************************************************************)
(* The order Executor._topological_sort gives to plans of up to            *)
(* MaxSortLen steps.                                                       *)
(***************************************************************************)

MaxSortLen == 3

\* Steps as the sort reads them: an id and depends_on.
SortSteps(ids) == [id : ids, depends_on : SUBSET ids]

\* Validated plans, the ids in ascending or in descending order in the list.
SortPlans ==
    UNION {{p \in [1..n -> SortSteps(1..n)] :
               \/ \A i \in 1..n : p[i].id = i
               \/ \A i \in 1..n : p[i].id = n + 1 - i} : n \in 1..MaxSortLen}

SortCalls == [fn : {"sort"}, steps : SortPlans, sorted_steps : {<< >>}, returned : {FALSE}]

\* sorted_steps = self._topological_sort(plan.steps)
sort_steps ==
    /\ call.fn = "sort"
    /\ ~call.returned
    /\ call' = [call EXCEPT !.sorted_steps = topological_sort(call.steps),
                            !.returned = TRUE]
    /\ UNCHANGED orchestration_vars

InitSort == InitOrchestration /\ call \in SortCalls

NextSort == sort_steps

SpecSort == InitSort /\ [][NextSort]_vars

\* No cycle among the depends_on entries: every non-empty set of steps has
\* a step that depends on none of the set.
DependsAcyclic(steps) ==
    \A S \in SUBSET StepIdsOf(steps) :
        S # {} => \E k \in 1..Len(steps) :
                     steps[k].id \in S /\ steps[k].depends_on \cap S = {}

\* The ids of the first k steps of a list.
IdsBefore(steps, k) == {steps[j].id : j \in 1..(k - 1)}

\* C31: in the executor's order of a plan without dependency cycles, the
\* step at every position is the one of smallest id among the steps not
\* yet run whose dependencies have all run.
C31_SmallestReadyIdNext ==
    (call.fn = "sort" /\ call.returned /\ DependsAcyclic(call.steps))
        => \A k \in 1..Len(call.sorted_steps) :
              LET done == IdsBefore(call.sorted_steps, k)
                  ready == {j \in k..Len(call.sorted_steps) :
                               call.sorted_steps[j].depends_on \subseteq done}
              IN  /\ k \in ready
                  /\ \A j \in ready : call.sorted_steps[k].id <= call.sorted_steps[j].id

(***************************************************************************)
(* One ACT phase with every call of execute_tool counted: _act_phase,      *)
(* execute_plan and the step handlers, on plans of up to MaxActSteps       *)
(* steps drawn one by one.                                                 *)
(***************************************************************************)

MaxActSteps == 4

\* relative_dates: the string inputs of a tool_call step that hold a word
\* such as "tomorrow"; _map_tool_parameters calls date_normalize for each.
\* outcome "raise" of a tool_call: the named tool is not registered (the
\* mapping has run by then); of a summarize: the LLM call fails.
ActSteps ==
    {st \in [type : {"tool_call", "summarize", "write_file", "ask_user"},
             outcome : {"ok", "raise", "no_location"}, retry : {0, 1},
             relative_dates : {0, 1}] :
        /\ st.outcome = "no_location" => st.type = "tool_call"
        /\ st.outcome = "raise" => st.type \in {"tool_call", "summarize"}
        /\ st.outcome # "raise" => st.retry = 0
        /\ st.relative_dates > 0 => st.type = "tool_call"}

\* The calls of execute_tool one step makes that reach a tool.
step_dispatches(step) ==
    CASE step.type = "tool_call" ->
             step.relative_dates + (IF step.outcome = "ok" THEN 1 ELSE 0)
      [] step.type \in {"write_file", "ask_user"} -> 1
      [] OTHER -> 0

\* The dispatch of the tool a tool_call step names.
step_named_dispatches(step) ==
    IF step.type = "tool_call" /\ step.outcome = "ok" THEN 1 ELSE 0

ActCalls ==
    [fn : {"act"}, plan_len : 1..MaxActSteps, i : {0}, tool_call_count : {0},
     dispatches : {0}, named_dispatches : {0}, completed_steps : {0}, errors : {0},
     ask_user_pending : {FALSE}, halted : {FALSE}, returned : {FALSE},
     total_tool_calls_added : {0}]

\* One iteration of `for step in sorted_steps` in execute_plan.
act_execute_step(step) ==
    /\ call.fn = "act"
    /\ ~call.returned
    /\ ~call.halted
    /\ call.i < call.plan_len
    /\ ~ActBudgetReached(call.tool_call_count)
    /\ LET begun == [call EXCEPT !.i = @ + 1,
                                 !.dispatches = @ + step_dispatches(step),
                                 !.named_dispatches = @ + step_named_dispatches(step)]
       IN  call' =
             IF step.outcome = "raise"
                 THEN [begun EXCEPT !.errors = @ + 1, !.halted = (step.retry = 0)]
             ELSE LET counted == [begun EXCEPT
                                     !.tool_call_count = @ + step_tool_calls(step)]
                  IN  IF step.outcome = "no_location"
                          THEN [counted EXCEPT !.ask_user_pending = TRUE, !.halted = TRUE]
                      ELSE [counted EXCEPT !.completed_steps = @ + 1]
    /\ UNCHANGED orchestration_vars

\* execute_plan returns and _act_phase adds to result.total_tool_calls.
act_phase_return ==
    /\ call.fn = "act"
    /\ ~call.returned
    /\ \/ call.halted
       \/ call.i >= call.plan_len
       \/ ActBudgetReached(call.tool_call_count)
    /\ call' = [call EXCEPT !.returned = TRUE,
                            !.total_tool_calls_added = call.completed_steps]
    /\ UNCHANGED orchestration_vars

InitAct == InitOrchestration /\ call \in ActCalls

NextAct ==
    \/ \E step \in ActSteps : act_execute_step(step)
    \/ act_phase_return

SpecAct == InitAct /\ [][NextAct]_vars

\* C32 as stated: within one ACT the executor makes at most max_tool_calls
\* calls to a tool.
C32_DispatchesWithinCap ==
    call.fn = "act" => call.dispatches <= max_tool_calls_per_act

\* C32, amended: within one ACT at most max_tool_calls tool_call steps
\* dispatch the tool they name, the counter of execute_plan never passes
\* the cap, and no step is started once it has reached the cap.
C32_ToolCallStepsWithinCap ==
    call.fn = "act" =>
        /\ call.named_dispatches <= call.tool_call_count
        /\ call.tool_call_count <= max_tool_calls_per_act
        /\ (call.returned /\ ~call.halted /\ call.i < call.plan_len)
               => call.tool_call_count = max_tool_calls_per_act

\* The cap stopped the loop with steps of the plan left.
C32_StoppedAtCap ==
    /\ call.fn = "act"
    /\ call.returned
    /\ call.named_dispatches = max_tool_calls_per_act
    /\ call.i < call.plan_len
    /\ ~call.halted

\* C33: the ACT adds to total_tool_calls exactly the number of tools
\* dispatched for its tool_call steps.
C33_CountsToolCallDispatchesOnly ==
    (call.fn = "act" /\ call.returned)
        => call.total_tool_calls_added = call.named_dispatches

\* The ids in a sequence of ids.
IdsIn(ids) == {ids[k] : k \in 1..Len(ids)}

\* C34: when execute_plan has returned without a pending question and
\* with tool calls of the phase left, every failure is in errors and every
\* step whose dependencies all completed was run: a failed step does not
\* keep the other branches from running.
C34_FailureLeavesOtherBranches ==
    (/\ call.fn = "execute_plan"
     /\ call.returned
     /\ call.ask_user_pending = Absent
     /\ call.tool_call_count < max_tool_calls_per_act)
        => \A k \in 1..Len(call.steps) :
              call.steps[k].depends_on \subseteq IdsIn(call.completed_steps)
                  => call.steps[k].id \in IdsIn(call.started)

\* C35: every slice that ends in FAILED returns an error_message.
C35_FailedHasErrorMessage ==
    (pc = "caller" /\ ret = "result" /\ result.status = FAILED)
        => result.error_message # ErrNone

\* C36: when a slice has returned its result and its caller is done, the
\* session's ActiveTask holds the plan, execution state, plan_iterations and
\* total_tool_calls of that result.
C36_ActiveTaskReflectsSlice ==
    [][(pc = "caller" /\ ret = "result" /\ pc' = "idle")
          => /\ session'.active_task # None
             /\ session'.active_task.plan = result.final_plan
             /\ session'.active_task.execution_state = result.execution_state
             /\ session'.active_task.plan_iterations = result.plan_iterations
             /\ session'.active_task.total_tool_calls = result.total_tool_calls]_vars

\* The keys an answer is stored under at resume.
AnswerKeys == {"user_city", "user_date", "user_answer"}

\* C37: while a slice runs on an ActiveTask whose ExecutionState holds an
\* answer stored at resume, the ExecutionState of the slice's result, the one
\* ACT, JUDGE and the rendering of the final answer use, holds that answer.
C37_AnswerSurvivesReplan ==
    (/\ pc \in {"loop", "exec", "after_loop"}
     /\ entry = "process_message"
     /\ session.active_task # None
     /\ session.active_task.execution_state # None)
        => \A key \in AnswerKeys :
              get_artifact(session.active_task.execution_state, key) # Absent
                  => /\ result.execution_state # None
                     /\ get_artifact(result.execution_state, key)
                            = get_artifact(session.active_task.execution_state, key)

\* C38: an answer the UI delivers with the ask id of the session's open
\* PendingAsk is accepted: the handler does not fail and the PendingAsk is
\* consumed.
C38_EchoedAskIdAccepted ==
    [][(/\ pc = "idle"
        /\ pc' = "caller"
        /\ entry' = "on_message"
        /\ has_pending_ask(session)
        /\ msg'.ask_id = session.pending_ask.ask_id) =>
           /\ ret' # "AttributeError"
           /\ ~has_pending_ask(session')]_vars

\* C39: sessions.resume_with_answer that returns None leaves the session's
\* PendingAsk and the artifacts of its ExecutionState as they were.
C39_ResumeAllOrNothing ==
    [][(/\ pc = "idle"
        /\ pc' = "caller"
        /\ entry' = "resume_with_answer"
        /\ ret' = "None") =>
           session' = session]_vars

(***************************************************************************)
(* Orchestrator.continue_with_user_answer(user_answer, result): its own    *)
(* run loop.  Nothing in the repository calls it; it is modelled as an     *)
(* entry point on the results a slice can have returned.                   *)
(***************************************************************************)

\* Loop iterations followed per kind (entries to PLAN, iterations that find
\* no branch); the loop itself has no such limit.
MaxContinueIters == 3

\* What one ACT phase can add to total_tool_calls.
ActAdds == 0..2

\* has_state: result.execution_state is present.
ContinueCalls ==
    [fn : {"continue"}, has_state : BOOLEAN, total_tool_calls : 0..max_total_tool_calls,
     pc : {"start"}, current_state : {PLAN}, plan_entries : {0}, idle_iterations : {0},
     time_up : {FALSE}, status : {"ask_user"}, error_message : {ErrNone}]

\* Up to the while loop: the answer is stored, or ValueError is raised and
\* the except clause returns FAILED.
continue_begin ==
    /\ call.fn = "continue"
    /\ call.pc = "start"
    /\ call' = IF call.has_state
               THEN [call EXCEPT !.pc = "loop"]
               ELSE [call EXCEPT !.pc = "returned", !.status = FAILED,
                                 !.error_message = "ValueError"]
    /\ UNCHANGED orchestration_vars

ContinueInLoop ==
    /\ call.fn = "continue"
    /\ call.pc = "loop"
    /\ call.current_state \notin {DONE, FAILED}

\* max_execution_time passes.
continue_clock_expires ==
    /\ ContinueInLoop
    /\ ~call.time_up
    /\ call' = [call EXCEPT !.time_up = TRUE]
    /\ UNCHANGED orchestration_vars

\* The two budget checks at the top of the loop: time, then tool calls.
continue_budget_break ==
    /\ ContinueInLoop
    /\ call.time_up \/ TotalToolCallsExhausted(call.total_tool_calls)
    /\ call' = [call EXCEPT !.current_state = FAILED,
                            !.error_message = IF call.time_up THEN ErrTime
                                              ELSE ErrToolCalls]
    /\ UNCHANGED orchestration_vars

ContinueBudgetsLeft ==
    /\ ContinueInLoop
    /\ ~call.time_up
    /\ ~TotalToolCallsExhausted(call.total_tool_calls)

\* PLAN branch: result.plan_iterations += 1, then _plan_phase.
continue_plan_phase(planned) ==
    /\ ContinueBudgetsLeft
    /\ call.current_state = PLAN
    /\ call.plan_entries < MaxContinueIters
    /\ call' = [call EXCEPT !.plan_entries = @ + 1,
                            !.current_state = IF planned THEN ACT ELSE FAILED]
    /\ UNCHANGED orchestration_vars

\* ACT branch: _act_phase adds the completed steps and returns ASK_USER
\* (marker present), JUDGE, or FAILED.
continue_act_phase(added, next_state) ==
    /\ ContinueBudgetsLeft
    /\ call.current_state = ACT
    /\ call' = [call EXCEPT !.total_tool_calls = @ + added,
                            !.current_state = next_state]
    /\ UNCHANGED orchestration_vars

\* JUDGE branch: _judge_phase returns DONE, ASK_USER, PLAN or FAILED.
continue_judge_phase(next_state) ==
    /\ ContinueBudgetsLeft
    /\ call.current_state = JUDGE
    /\ call' = [call EXCEPT !.current_state = next_state]
    /\ UNCHANGED orchestration_vars

\* An iteration in ASK_USER: the if/elif chain has no branch for it, the
\* state stays and the loop goes round.
continue_no_branch ==
    /\ ContinueBudgetsLeft
    /\ call.current_state = ASK_USER
    /\ call.idle_iterations < MaxContinueIters
    /\ call' = [call EXCEPT !.idle_iterations = @ + 1]
    /\ UNCHANGED orchestration_vars

\* After the loop: result.status = current_state.value; return result.
continue_return ==
    /\ call.fn = "continue"
    /\ call.pc = "loop"
    /\ call.current_state \in {DONE, FAILED}
    /\ call' = [call EXCEPT !.pc = "returned", !.status = call.current_state]
    /\ UNCHANGED orchestration_vars

InitContinue == InitOrchestration /\ call \in ContinueCalls

NextContinue ==
    \/ continue_begin
    \/ continue_clock_expires
    \/ continue_budget_break
    \/ \E planned \in BOOLEAN : continue_plan_phase(planned)
    \/ \E added \in ActAdds, next_state \in {ASK_USER, JUDGE, FAILED} :
           continue_act_phase(added, next_state)
    \/ \E next_state \in {DONE, ASK_USER, PLAN, FAILED} : continue_judge_phase(next_state)
    \/ continue_no_branch
    \/ continue_return

SpecContinue == InitContinue /\ [][NextContinue]_vars

\* C40: the loop of continue_with_user_answer makes at most max_plan_iters
\* entries to PLAN and never begins an iteration in ASK_USER: it leaves
\* the loop when the machine reaches ASK_USER.
C40_ContinueLoopBounded ==
    call.fn = "continue" =>
        /\ call.plan_entries <= max_plan_iters
        /\ call.idle_iterations = 0

====
